---- MODULE Spec2Model ----
(***************************************************************************)
(* Model of the audio analysis / broadcast pipeline (AudioManager) and of  *)
(* the particle simulation (Agent, AgentSystem) of omnivoid.               *)
(*                                                                         *)
(* JavaScript runs every handler to completion, so each handler is one     *)
(* atomic action; an `await` splits a handler into several actions.        *)
(* Handlers call each other (seek calls pause and play, play calls         *)
(* startVisualization, ...), so the methods are operators from a "world"   *)
(* record (the AudioManager's fields plus the browser objects it drives)   *)
(* to the world after the call; an action applies one of them to the       *)
(* current values of the variables.                                        *)
(*                                                                         *)
(* Units: audio time (currentTime, startTime, duration, the audio clock)   *)
(* is in whole seconds; performance.now() and the frame interval are in    *)
(* units of 1/60 ms, so that 1000/60 ms is the integer 1000.               *)
(***************************************************************************)
EXTENDS Integers, Sequences, FiniteSets, TLC

VARIABLES
  \* ---- AudioManager fields (part_006, constructor) ----
  audioContext,        \* "null" | "suspended" | "running": audioContext and its .state
  isInitialized,
  audioBuffer,         \* 0 = null, otherwise the track that was decoded
  duration,
  currentTime,
  startTime,
  isPlaying,
  pendingPlayback,
  source,              \* 0 = null, otherwise an index into nodes
  isProcessing,
  frameId,             \* 0 = null, otherwise a requestAnimationFrame id
  lastFrameTime,
  visualizerCallbacks, \* a Set iterates in insertion order: a duplicate-free sequence
  gainNode,            \* made: it exists; gain.value and the target it moves to
  \* ---- the Headline component subscribed to the manager ----
  headline,            \* made, the function object it registered, destroyed
  \* ---- browser objects the manager drives ----
  ctxTime,             \* audioContext.currentTime
  perfNow,             \* performance.now()
  nodes,               \* every AudioBufferSourceNode created so far
  rafPending,          \* ids of the animation-frame callbacks that are scheduled
  listenerArmed,       \* the {once: true} click listener is still registered
  \* ---- positions of the async methods ----
  hookPc,              \* handleFirstInteraction: "idle" | "resuming"
  loadPc,              \* loadAudio: "idle" | "init" | "fetch"
  loadArg,             \* [track, ok, caller] of the loadAudio call in flight
  loadResult,          \* "none" | "true" | "false": what loadAudio last returned
  \* ---- observations (written by the operations, read only by properties) ----
  obs,
  last,                \* the last operation, its argument and the state it started in
  \* ---- the analyser's sample buffer (AudioManager.dataArray) ----
  dataArray,
  \* ---- particle field (AgentSystem) ----
  agents, width, height, agentCount,
  baseConnectDist, connectDist,
  frequencyData,       \* "null", or "dataArray": a reference to the sample buffer
  audioIntensity, bassIntensity, audioScale,   \* fractions, see Frac
  agentIds, allocated, \* the agent objects of the batch; objects created so far
  isVisible,           \* Component.isVisible of the AgentSystem
  fieldObs             \* observations on the particle field

vars == << audioContext, isInitialized, audioBuffer, duration, currentTime,
           startTime, isPlaying, pendingPlayback, source, isProcessing, frameId,
           lastFrameTime, visualizerCallbacks, gainNode, headline, ctxTime,
           perfNow, nodes, rafPending, listenerArmed, hookPc, loadPc, loadArg,
           loadResult, obs, last, dataArray, agents, width, height,
           agentCount, baseConnectDist, connectDist, frequencyData,
           audioIntensity, bassIntensity, audioScale, agentIds, allocated,
           isVisible, fieldObs >>

audioVars == << audioContext, isInitialized, audioBuffer, duration, currentTime,
                startTime, isPlaying, pendingPlayback, source, isProcessing,
                frameId, lastFrameTime, visualizerCallbacks, gainNode,
                headline, ctxTime, perfNow, nodes, rafPending, listenerArmed, hookPc, loadPc,
                loadArg, loadResult, obs, last >>

\* Everything outside the playback session: the sample buffer and the field.
reactiveVars == << frequencyData, audioIntensity, bassIntensity, audioScale,
                   connectDist >>

agentVars == << dataArray, agents, width, height, agentCount, baseConnectDist,
                agentIds, allocated, isVisible, fieldObs, reactiveVars >>

-----------------------------------------------------------------------------
(* Bounds of the model *)

NTracks == 1          \* tracks that can be loaded; track k lasts k + 1 seconds
MaxCtxTime == 2       \* the audio clock is followed up to this many seconds
MaxSources == 2       \* source nodes created in one run
MaxNow == 2000        \* performance.now() is followed up to this value
TimeStep == 500       \* granularity of performance.now()
NSubs == 2            \* subscriber callbacks
MaxBinds == 3         \* function objects created by bind in one run

Tracks == 1..NTracks
Subs == 1..NSubs
Dur(track) == track + 1

\* part_006:34  this.minFrameInterval = 1000 / 60 (ms), in units of 1/60 ms
minFrameInterval == 1000

Min(a, b) == IF a < b THEN a ELSE b
Max(a, b) == IF a > b THEN a ELSE b

\* Numbers that are not integers are fractions num/den in lowest terms.
RECURSIVE Gcd(_, _)
Gcd(a, b) == IF b = 0 THEN a ELSE Gcd(b, a % b)
Lcm(a, b) == (a \div Gcd(a, b)) * b
Abs(a) == IF a < 0 THEN -a ELSE a
Frac(n, d) ==
  LET g == Gcd(Abs(n), d)
  IN [num |-> n \div g, den |-> d \div g]
Zero == Frac(0, 1)
One == Frac(1, 1)
FLess(p, q) == p.num * q.den < q.num * p.den
SeqSet(q) == {q[i] : i \in 1..Len(q)}

\* Volume is in steps of 1 / VolumeSteps: gain 1.0 is VolumeSteps.
VolumeSteps == 4

\* Requested volumes: below 0, 0, inside, 1.0 and above 1.0 (-0.5 ... 2.0).
Volumes == {-(VolumeSteps \div 2), 0, VolumeSteps \div 2, VolumeSteps,
            2 * VolumeSteps}

\* Requested seek targets: before the start, inside, past the end of any track.
SeekTimes == {-1, 1, Dur(NTracks) + 1}

-----------------------------------------------------------------------------
(* The world record *)

W == [ audioContext |-> audioContext, isInitialized |-> isInitialized,
       audioBuffer |-> audioBuffer, duration |-> duration,
       currentTime |-> currentTime, startTime |-> startTime,
       isPlaying |-> isPlaying, pendingPlayback |-> pendingPlayback,
       source |-> source, isProcessing |-> isProcessing, frameId |-> frameId,
       lastFrameTime |-> lastFrameTime,
       visualizerCallbacks |-> visualizerCallbacks, gainNode |-> gainNode,
       headline |-> headline, ctxTime |-> ctxTime, perfNow |-> perfNow, nodes |-> nodes,
       rafPending |-> rafPending, listenerArmed |-> listenerArmed,
       hookPc |-> hookPc, loadPc |-> loadPc, loadArg |-> loadArg,
       loadResult |-> loadResult, obs |-> obs ]

Apply(w) ==
  /\ audioContext' = w.audioContext
  /\ isInitialized' = w.isInitialized
  /\ audioBuffer' = w.audioBuffer
  /\ duration' = w.duration
  /\ currentTime' = w.currentTime
  /\ startTime' = w.startTime
  /\ isPlaying' = w.isPlaying
  /\ pendingPlayback' = w.pendingPlayback
  /\ source' = w.source
  /\ isProcessing' = w.isProcessing
  /\ frameId' = w.frameId
  /\ lastFrameTime' = w.lastFrameTime
  /\ visualizerCallbacks' = w.visualizerCallbacks
  /\ gainNode' = w.gainNode
  /\ headline' = w.headline
  /\ ctxTime' = w.ctxTime
  /\ perfNow' = w.perfNow
  /\ nodes' = w.nodes
  /\ rafPending' = w.rafPending
  /\ listenerArmed' = w.listenerArmed
  /\ hookPc' = w.hookPc
  /\ loadPc' = w.loadPc
  /\ loadArg' = w.loadArg
  /\ loadResult' = w.loadResult
  /\ obs' = w.obs

\* What an operation started from: the fields the contracts speak about.
Snap == [ isPlaying |-> isPlaying, currentTime |-> currentTime,
          startTime |-> startTime, pendingPlayback |-> pendingPlayback,
          source |-> source, isProcessing |-> isProcessing,
          audioBuffer |-> audioBuffer, duration |-> duration,
          audioContext |-> audioContext, ctxTime |-> ctxTime,
          nNodes |-> Len(nodes), rafPending |-> rafPending,
          cbs |-> visualizerCallbacks, gainNode |-> gainNode ]

Did(name, arg) == last' = [op |-> name, arg |-> arg, pre |-> Snap]

NoLoad == [track |-> 0, caller |-> "none"]

\* What one run of `animate` did: `active` is isProcessing as the run found
\* it, `calls` the callbacks it invoked, in order, `stopped` whether one of
\* them stopped the loop during the run.
NoTick == [ran |-> FALSE, active |-> FALSE, published |-> FALSE,
           registered |-> {}, calls |-> << >>, delivered |-> {},
           threw |-> FALSE, stopped |-> FALSE, scheduled |-> FALSE, gap |-> 0]

ObsInit == [ endedSincePlay |-> 0,     \* ended handlers run since the last source start
             tick |-> NoTick,          \* what the last analysis tick did
             publishes |-> 0,          \* publishing ticks so far (capped)
             throttled |-> FALSE,      \* some tick was skipped by the rate limit
             loopSince |-> 0,          \* perfNow of the last publish or loop start
             clickedSinceDefer |-> FALSE ]

-----------------------------------------------------------------------------
(* Browser primitives *)

\* No gain node yet; createGain(): a gain node at its default gain 1.
NoGain == [made |-> FALSE, value |-> VolumeSteps, target |-> VolumeSteps]
createGain == [made |-> TRUE, value |-> VolumeSteps, target |-> VolumeSteps]

\* AudioParam.setTargetAtTime: while the context renders, the value
\* approaches the target exponentially; one step closes half of the distance
\* (and the last step of it).
Approach(value, target) ==
  IF value <= target
    THEN target - ((target - value) \div 2)
    ELSE target + ((value - target) \div 2)

\* No Headline has been constructed.  `binds` counts the function objects
\* Function.prototype.bind has created: each call returns a new one.
NoHeadline == [made |-> FALSE, callback |-> 0, destroyed |-> FALSE, binds |-> 0]

\* this.onAudioData.bind(this): a function object that did not exist before
Bind(w) == NSubs + w.headline.binds + 1

\* requestAnimationFrame hands out an id that is not in use.
FreshId(w) ==
  CHOOSE i \in 1..(Cardinality(w.rafPending) + 1) :
    /\ i \notin w.rafPending
    /\ \A j \in 1..(i - 1) : j \in w.rafPending

requestAnimationFrame(w) ==
  LET id == FreshId(w)
  IN [w EXCEPT !.rafPending = @ \cup {id}, !.frameId = id]

cancelAnimationFrame(w, id) == [w EXCEPT !.rafPending = @ \ {id}]

\* A node that no longer plays: only its status is of interest from then on.
Silent(status) == [buffer |-> 0, offset |-> 0, startedAt |-> 0, status |-> status]

\* AudioBufferSourceNode.stop(): a playing node stops and its ended event is
\* queued; stopping a node that already stopped does nothing.
StopNode(w, n) ==
  IF w.nodes[n].status = "playing"
    THEN [w EXCEPT !.nodes[n] = Silent("stopped")]
    ELSE w

\* The node has played its buffer to the end.
Finished(w, n) ==
  /\ w.nodes[n].status = "playing"
  /\ w.ctxTime - w.nodes[n].startedAt >= Dur(w.nodes[n].buffer) - w.nodes[n].offset

-----------------------------------------------------------------------------
(* AudioManager: the analysis loop *)

\* stopVisualization()
stopVisualization(w) ==
  LET w1 == [w EXCEPT !.isProcessing = FALSE]
  IN IF w1.frameId # 0
       THEN [cancelAnimationFrame(w1, w1.frameId) EXCEPT !.frameId = 0]
       ELSE w1

\* pause() that leaves the analysis loop running
pauseKeepsLoop(w) ==
  IF ~w.isPlaying THEN w
  ELSE
    LET w1 == IF w.startTime # 0
                THEN [w EXCEPT !.currentTime = @ + (w.ctxTime - w.startTime)]
                ELSE w
        w2 == StopNode(w1, w1.source)
    IN [w2 EXCEPT !.isPlaying = FALSE, !.startTime = 0]

\* pause()
pause(w) ==
  IF ~w.isPlaying THEN w
  ELSE
    LET w1 == IF w.startTime # 0
                THEN [w EXCEPT !.currentTime = @ + (w.ctxTime - w.startTime)]
                ELSE w
        w2 == StopNode(w1, w1.source)
    IN stopVisualization([w2 EXCEPT !.isPlaying = FALSE, !.startTime = 0])

\* The callbacks visualizerCallbacks.forEach invokes, in order, when
\* `thrower` throws (0: nobody throws): forEach has no try/catch, so the
\* iteration ends at the first callback that throws.
Invoked(cbs, thrower) ==
  IF \E i \in 1..Len(cbs) : cbs[i] = thrower
    THEN SubSeq(cbs, 1, CHOOSE i \in 1..Len(cbs) : cbs[i] = thrower)
    ELSE cbs

Reached(cbs, thrower) ==
  {Invoked(cbs, thrower)[i] : i \in 1..Len(Invoked(cbs, thrower))}

Throws(cbs, thrower) == \E i \in 1..Len(cbs) : cbs[i] = thrower

\* One run of the closure `animate` of startVisualization, past its
\* isProcessing check.  The callbacks are the caller's code: `thrower` is the
\* subscriber whose callback throws in this run and `stopper` the one whose
\* callback calls pause() on the manager (0: none).
animateTick(w, thrower, stopper) ==
  LET deltaTime == w.perfNow - w.lastFrameTime
      cbs == w.visualizerCallbacks
  IN
  IF deltaTime >= minFrameInterval
    THEN
      LET stops == stopper \in Reached(cbs, thrower)
          t == [ran |-> TRUE, active |-> w.isProcessing, published |-> TRUE,
                registered |-> {cbs[i] : i \in 1..Len(cbs)},
                calls |-> Invoked(cbs, thrower),
                delivered |-> Reached(cbs, thrower),
                threw |-> Throws(cbs, thrower),
                stopped |-> stops,
                scheduled |-> ~Throws(cbs, thrower),
                gap |-> w.perfNow - w.obs.loopSince]
          pub == [w EXCEPT !.obs.publishes = Min(@ + 1, 2),
                           !.obs.loopSince = w.perfNow,
                           !.obs.tick = t]
          \* visualizerCallbacks.forEach(callback => callback(normalizedData))
          sent == IF stops THEN pause(pub) ELSE pub
      IN IF Throws(cbs, thrower)
           \* the exception leaves animate: lastFrameTime is not updated
           \* and no further frame is requested
           THEN sent
           ELSE requestAnimationFrame([sent EXCEPT !.lastFrameTime = w.perfNow])
    ELSE
      requestAnimationFrame(
        [w EXCEPT !.obs.tick = [NoTick EXCEPT !.ran = TRUE,
                                              !.active = w.isProcessing,
                                              !.scheduled = TRUE],
                  !.obs.throttled = TRUE])

\* animate without `if (!this.isProcessing) return`
animateUnchecked(w, thrower, stopper) == animateTick(w, thrower, stopper)

\* One run of the closure `animate`.
animate(w, thrower, stopper) ==
  IF ~w.isProcessing
    THEN [w EXCEPT !.obs.tick = [NoTick EXCEPT !.ran = TRUE]]
    ELSE animateTick(w, thrower, stopper)

\* startVisualization()
startVisualization(w) ==
  IF ~w.isProcessing
    THEN animate([w EXCEPT !.isProcessing = TRUE,
                           !.lastFrameTime = w.perfNow,
                           !.obs.loopSince = w.perfNow], 0, 0)
    ELSE w

\* addVisualizer(callback) on an array of callbacks: push
addVisualizerPush(w, cb) ==
  [w EXCEPT !.visualizerCallbacks = Append(@, cb)]

\* addVisualizer(callback) / removeVisualizer(callback): Set.add, Set.delete
addVisualizer(w, cb) ==
  IF \E i \in 1..Len(w.visualizerCallbacks) : w.visualizerCallbacks[i] = cb
    THEN w
    ELSE [w EXCEPT !.visualizerCallbacks = Append(@, cb)]

removeVisualizer(w, cb) ==
  [w EXCEPT !.visualizerCallbacks = SelectSeq(@, LAMBDA c : c # cb)]

\* new Headline(audioManager): addVisualizer(this.onAudioData.bind(this))
newHeadline(w) ==
  LET fn == Bind(w)
  IN [addVisualizer(w, fn) EXCEPT
        !.headline = [made |-> TRUE, callback |-> fn, destroyed |-> FALSE,
                      binds |-> w.headline.binds + 1]]

\* Headline.destroy(): removeVisualizer(this.onAudioData.bind(this))
destroy(w) ==
  LET fn == Bind(w)
  IN [removeVisualizer(w, fn) EXCEPT
        !.headline.destroyed = TRUE,
        !.headline.binds = w.headline.binds + 1]

-----------------------------------------------------------------------------
(* AudioManager: playback *)

\* The start of a source, as play() does it once its guards have passed.
startSource(w) ==
  LET node == [buffer |-> w.audioBuffer, offset |-> w.currentTime,
               startedAt |-> w.ctxTime, status |-> "playing"]
  IN startVisualization(
       [w EXCEPT !.nodes = Append(@, node),
                 !.source = Len(w.nodes) + 1,
                 !.startTime = w.ctxTime,
                 !.isPlaying = TRUE,
                 !.pendingPlayback = FALSE,
                 !.obs.endedSincePlay = 0])

\* play() without the "already playing" guard
playNoPlayingGuard(w) ==
  IF w.audioBuffer = 0 THEN w
  ELSE IF w.audioContext = "suspended"
    THEN [w EXCEPT !.pendingPlayback = TRUE, !.obs.clickedSinceDefer = FALSE]
  ELSE startSource(w)

\* play() without the "context suspended" guard
playNoSuspendedGuard(w) ==
  IF w.audioBuffer = 0 THEN w
  ELSE IF w.isPlaying THEN w
  ELSE startSource(w)

\* play()
play(w) ==
  IF w.audioBuffer = 0 THEN w
  ELSE IF w.isPlaying THEN w
  ELSE IF w.audioContext = "suspended"
    THEN [w EXCEPT !.pendingPlayback = TRUE, !.obs.clickedSinceDefer = FALSE]
  ELSE startSource(w)

\* seek(time) that stores the requested time as it is
seekUnclamped(w, time) ==
  LET w1 == IF w.isPlaying THEN pause(w) ELSE w
      w2 == [w1 EXCEPT !.currentTime = time]
  IN IF w2.isPlaying THEN play(w2) ELSE w2

\* seek(time)
seek(w, time) ==
  LET w1 == IF w.isPlaying THEN pause(w) ELSE w
      w2 == [w1 EXCEPT !.currentTime = Max(0, Min(time, w1.duration))]
  IN IF w2.isPlaying THEN play(w2) ELSE w2

\* source.onended, the handler play() installs on every source it creates
onended(w) ==
  stopVisualization([w EXCEPT !.isPlaying = FALSE,
                              !.currentTime = 0,
                              !.startTime = 0,
                              !.obs.endedSincePlay = Min(@ + 1, 2)])

-----------------------------------------------------------------------------
(* AudioManager: async methods, one operator per stretch between awaits *)

\* initializeAudioContext() up to its await: a new context, whose state is
\* the platform's choice (autoplay policy).
createContext(w, state) ==
  [w EXCEPT !.audioContext = state, !.ctxTime = 0, !.gainNode = createGain]

\* setVolume(value) that hands the requested value to the gain as it is
setVolumeUnclamped(w, value) ==
  IF w.gainNode.made
    THEN [w EXCEPT !.gainNode.target = value]
    ELSE w

\* setVolume(value): gain.setTargetAtTime(clampedVolume, currentTime, 0.01)
setVolume(w, value) ==
  IF w.gainNode.made
    THEN [w EXCEPT !.gainNode.target = Max(0, Min(VolumeSteps, value))]
    ELSE w

\* getVolume()
getVolume(w) == IF w.gainNode.made THEN w.gainNode.value ELSE VolumeSteps

\* loadAudio(url), after initializeAudioContext() has resolved: stop any
\* existing playback, then wait for fetch and decodeAudioData.
loadAudioStop(w) ==
  LET w1 == [w EXCEPT !.isInitialized = TRUE, !.loadPc = "fetch"]
  IN IF w1.source # 0 THEN StopNode(w1, w1.source) ELSE w1

\* loadAudio(url) from the call to its first real await.
loadAudioBegin(w, track, caller, state) ==
  LET w1 == [w EXCEPT !.loadArg = [track |-> track, caller |-> caller],
                      !.loadResult = "none"]
  IN IF ~w1.isInitialized
       THEN [createContext(w1, state) EXCEPT !.loadPc = "init"]
       ELSE loadAudioStop(w1)

\* loadAudio(url) that resets the position before it knows the outcome
loadAudioEndResetsFirst(w, ok) ==
  LET w1 == [w EXCEPT !.loadPc = "idle",
                      !.loadArg = NoLoad,
                      !.currentTime = 0,
                      !.loadResult = IF ok THEN "true" ELSE "false"]
  IN IF ok
       THEN [w1 EXCEPT !.audioBuffer = w.loadArg.track,
                       !.duration = Dur(w.loadArg.track)]
       ELSE w1

\* loadAudio(url) after fetch and decode settled: `ok` is whether both
\* succeeded; a rejection is caught and turned into `false`.
loadAudioEnd(w, ok) ==
  LET w1 == [w EXCEPT !.loadPc = "idle",
                      !.loadArg = NoLoad,
                      !.loadResult = IF ok THEN "true" ELSE "false"]
  IN IF ok
       THEN [w1 EXCEPT !.audioBuffer = w.loadArg.track,
                       !.duration = Dur(w.loadArg.track),
                       !.currentTime = 0]
       ELSE w1

\* AppMobile.playMusicFile(fileName) up to `await loadAudio`
playMusicFile(w, track, state) ==
  loadAudioBegin([w EXCEPT !.audioBuffer = 0], track, "playMusicFile", state)

\* ... and its continuation: if (loaded) this.audioManager.play()
playMusicFileEnd(w, ok) ==
  LET w1 == loadAudioEnd(w, ok)
  IN IF ok THEN play(w1) ELSE w1

\* The once-only click listener: handleFirstInteraction() up to its await.
handleFirstInteraction(w) ==
  IF w.audioContext = "suspended"
    THEN [w EXCEPT !.hookPc = "resuming"]
    ELSE w

\* handleFirstInteraction() after `await this.audioContext.resume()`
handleFirstInteractionEnd(w) ==
  LET w1 == [w EXCEPT !.audioContext = "running", !.hookPc = "idle"]
  IN IF w1.pendingPlayback /\ w1.audioBuffer # 0 THEN play(w1) ELSE w1

\* A click anywhere in the document.
click(w) ==
  LET w1 == [w EXCEPT !.obs.clickedSinceDefer =
                         @ \/ (w.pendingPlayback /\ w.audioBuffer # 0)]
  IN IF w1.listenerArmed
       THEN handleFirstInteraction([w1 EXCEPT !.listenerArmed = FALSE])
       ELSE w1

-----------------------------------------------------------------------------
(* Actions of the playback session and the analysis loop *)

CanCreateSource == Len(nodes) < MaxSources

Play ==
  /\ CanCreateSource
  /\ Apply(play(W)) /\ Did("play", 0)
  /\ UNCHANGED agentVars

Pause ==
  /\ Apply(pause(W)) /\ Did("pause", 0)
  /\ UNCHANGED agentVars

Seek ==
  \E t \in SeekTimes :
    /\ CanCreateSource
    /\ Apply(seek(W, t)) /\ Did("seek", t)
    /\ UNCHANGED agentVars

\* One loadAudio call is followed at a time.
LoadAudio ==
  \E track \in Tracks, state \in {"suspended", "running"} :
    /\ loadPc = "idle"
    /\ Apply(loadAudioBegin(W, track, "direct", state)) /\ Did("loadAudio", track)
    /\ UNCHANGED agentVars

PlayMusicFile ==
  \E track \in Tracks, state \in {"suspended", "running"} :
    /\ loadPc = "idle"
    /\ Apply(playMusicFile(W, track, state)) /\ Did("playMusicFile", track)
    /\ UNCHANGED agentVars

LoadAudioInitialized ==
  /\ loadPc = "init"
  /\ Apply(loadAudioStop(W)) /\ Did("loadAudioStop", 0)
  /\ UNCHANGED agentVars

LoadAudioSettled ==
  \E ok \in BOOLEAN :
    /\ loadPc = "fetch"
    /\ CanCreateSource
    /\ Apply(IF loadArg.caller = "playMusicFile"
               THEN playMusicFileEnd(W, ok)
               ELSE loadAudioEnd(W, ok))
    /\ Did("loadAudioEnd", IF ok THEN 1 ELSE 0)
    /\ UNCHANGED agentVars

UserClick ==
  /\ Apply(click(W)) /\ Did("click", 0)
  /\ UNCHANGED agentVars

ContextResumed ==
  /\ hookPc = "resuming"
  /\ CanCreateSource
  /\ Apply(handleFirstInteractionEnd(W)) /\ Did("resumed", 0)
  /\ UNCHANGED agentVars

\* A playing source reaches the end of its buffer: its ended event is queued.
SourceFinishes ==
  \E n \in 1..Len(nodes) :
    /\ audioContext = "running"
    /\ Finished(W, n)
    /\ Apply([W EXCEPT !.nodes[n] = Silent("stopped")]) /\ Did("finished", n)
    /\ UNCHANGED agentVars

\* The browser dispatches a queued ended event to the source's onended.
EndedEvent ==
  \E n \in 1..Len(nodes) :
    /\ nodes[n].status = "stopped"
    /\ Apply(onended([W EXCEPT !.nodes[n] = Silent("ended")])) /\ Did("ended", n)
    /\ UNCHANGED agentVars

\* A scheduled animation-frame callback runs `animate`.
AnimationFrame ==
  \E id \in rafPending, thrower \in 0..NSubs, stopper \in 0..NSubs :
    /\ Apply(animate([W EXCEPT !.rafPending = @ \ {id}], thrower, stopper))
    /\ Did("animate", thrower)
    /\ UNCHANGED agentVars

AddVisualizer ==
  \E cb \in Subs :
    /\ Apply(addVisualizer(W, cb)) /\ Did("addVisualizer", cb)
    /\ UNCHANGED agentVars

RemoveVisualizer ==
  \E cb \in Subs :
    /\ Apply(removeVisualizer(W, cb)) /\ Did("removeVisualizer", cb)
    /\ UNCHANGED agentVars

NewHeadline ==
  /\ ~headline.made
  /\ Apply(newHeadline(W)) /\ Did("newHeadline", 0)
  /\ UNCHANGED agentVars

DestroyHeadline ==
  /\ headline.made
  /\ headline.binds < MaxBinds
  /\ Apply(destroy(W)) /\ Did("destroy", 0)
  /\ UNCHANGED agentVars

SetVolume ==
  \E v \in Volumes :
    /\ Apply(setVolume(W, v)) /\ Did("setVolume", v)
    /\ UNCHANGED agentVars

\* The context renders some audio: the gain follows its automation.
GainSettles ==
  /\ audioContext = "running"
  /\ gainNode.made
  /\ gainNode.value # gainNode.target
  /\ Apply([W EXCEPT !.gainNode.value = Approach(@, gainNode.target)])
  /\ Did("render", 0)
  /\ UNCHANGED agentVars

\* The audio clock advances while the context runs.
AudioClock ==
  /\ audioContext = "running"
  /\ ctxTime < MaxCtxTime
  /\ ctxTime' = ctxTime + 1
  /\ UNCHANGED << audioContext, isInitialized, audioBuffer, duration,
                  currentTime, startTime, isPlaying, pendingPlayback, source,
                  isProcessing, frameId, lastFrameTime, visualizerCallbacks,
                  gainNode, headline, perfNow, nodes, rafPending, listenerArmed, hookPc, loadPc,
                  loadArg, loadResult, obs, last >>
  /\ UNCHANGED agentVars

TimePasses ==
  /\ perfNow + TimeStep <= MaxNow
  /\ perfNow' = perfNow + TimeStep
  /\ UNCHANGED << audioContext, isInitialized, audioBuffer, duration,
                  currentTime, startTime, isPlaying, pendingPlayback, source,
                  isProcessing, frameId, lastFrameTime, visualizerCallbacks,
                  gainNode, headline, ctxTime, nodes, rafPending, listenerArmed, hookPc, loadPc,
                  loadArg, loadResult, obs, last >>
  /\ UNCHANGED agentVars

\* The state the AudioManager constructor leaves.
AudioInit ==
  /\ audioContext = "null"
  /\ isInitialized = FALSE
  /\ audioBuffer = 0
  /\ duration = 0
  /\ currentTime = 0
  /\ startTime = 0
  /\ isPlaying = FALSE
  /\ pendingPlayback = FALSE
  /\ source = 0
  /\ isProcessing = FALSE
  /\ frameId = 0
  /\ lastFrameTime = 0
  /\ visualizerCallbacks = << >>
  /\ gainNode = NoGain
  /\ headline = NoHeadline
  /\ ctxTime = 0
  /\ perfNow = 0
  /\ nodes = << >>
  /\ rafPending = {}
  /\ listenerArmed = TRUE
  /\ hookPc = "idle"
  /\ loadPc = "idle"
  /\ loadArg = NoLoad
  /\ loadResult = "none"
  /\ obs = ObsInit
  /\ last = [op |-> "new", arg |-> 0, pre |-> Snap]

\* No AgentSystem has been constructed and the analyser is not followed.
NoKept == [taken |-> FALSE, raw |-> "null", bins |-> << >>]
FieldObsInit == [ frames |-> 0,         \* frames received so far (capped)
                  kept |-> NoKept,      \* a frame the field received and kept
                  did |-> "new", arg |-> 0, before |-> << >>,
                  energies |-> << >>,   \* bass, mid, treble of the frame just received
                  at |-> << >>,         \* the batch the last frame started from
                  edges |-> << >> ]     \* edges stroked by the last frame

AgentsIdle ==
  /\ dataArray = << >>
  /\ agents = << >>
  /\ width = 0
  /\ height = 0
  /\ agentCount = 0
  /\ baseConnectDist = 0
  /\ connectDist = Zero
  /\ frequencyData = "null"
  /\ audioIntensity = Zero
  /\ bassIntensity = Zero
  /\ audioScale = One
  /\ agentIds = << >>
  /\ allocated = 0
  /\ isVisible = FALSE
  /\ fieldObs = FieldObsInit

Init == AudioInit /\ AgentsIdle

\* The playback session: every operation of the control surface, the async
\* methods and the browser's events.  performance.now() stands still, so the
\* analysis loop runs but never publishes; SpecLoop follows it in time.
Next ==
  \/ Play
  \/ Pause
  \/ Seek
  \/ LoadAudio
  \/ PlayMusicFile
  \/ LoadAudioInitialized
  \/ LoadAudioSettled
  \/ UserClick
  \/ ContextResumed
  \/ SourceFinishes
  \/ EndedEvent
  \/ AnimationFrame
  \/ AudioClock

Spec == Init /\ [][Next]_vars

\* The analysis loop in time: a track is loaded and the context runs (the
\* state loadAudio leaves on a platform without autoplay restriction).
AudioLoaded ==
  /\ \E w \in { [audioContext |-> "running", isInitialized |-> TRUE,
                 audioBuffer |-> 1, duration |-> Dur(1), currentTime |-> 0,
                 startTime |-> 0, isPlaying |-> FALSE,
                 pendingPlayback |-> FALSE, source |-> 0,
                 isProcessing |-> FALSE, frameId |-> 0, lastFrameTime |-> 0,
                 visualizerCallbacks |-> << >>,
                 gainNode |-> createGain, headline |-> NoHeadline,
                 ctxTime |-> 0, perfNow |-> 0,
                 nodes |-> << >>, rafPending |-> {}, listenerArmed |-> TRUE,
                 hookPc |-> "idle", loadPc |-> "idle",
                 loadArg |-> NoLoad,
                 loadResult |-> "true", obs |-> ObsInit] } :
       /\ audioContext = w.audioContext /\ isInitialized = w.isInitialized
       /\ audioBuffer = w.audioBuffer /\ duration = w.duration
       /\ currentTime = w.currentTime /\ startTime = w.startTime
       /\ isPlaying = w.isPlaying /\ pendingPlayback = w.pendingPlayback
       /\ source = w.source /\ isProcessing = w.isProcessing
       /\ frameId = w.frameId /\ lastFrameTime = w.lastFrameTime
       /\ visualizerCallbacks = w.visualizerCallbacks
       /\ gainNode = w.gainNode /\ headline = w.headline
       /\ ctxTime = w.ctxTime /\ perfNow = w.perfNow /\ nodes = w.nodes
       /\ rafPending = w.rafPending /\ listenerArmed = w.listenerArmed
       /\ hookPc = w.hookPc /\ loadPc = w.loadPc /\ loadArg = w.loadArg
       /\ loadResult = w.loadResult /\ obs = w.obs
  /\ last = [op |-> "loadAudioEnd", arg |-> 1, pre |-> Snap]

InitLoop == AgentsIdle /\ AudioLoaded

NextLoop ==
  \/ Play
  \/ Pause
  \/ EndedEvent
  \/ AnimationFrame
  \/ AddVisualizer
  \/ RemoveVisualizer
  \/ TimePasses

SpecLoop == InitLoop /\ [][NextLoop]_vars

\* The headline: it is constructed on a loaded manager, frames are published
\* while the session plays, and it is destroyed.
NextHeadline ==
  \/ NewHeadline
  \/ DestroyHeadline
  \/ Play
  \/ Pause
  \/ AnimationFrame
  \/ TimePasses

SpecHeadline == InitLoop /\ [][NextHeadline]_vars

\* The volume control: the context is created by a load, the user sets
\* volumes, the gain follows while the context renders.
NextVolume ==
  \/ LoadAudio
  \/ LoadAudioInitialized
  \/ LoadAudioSettled
  \/ UserClick
  \/ ContextResumed
  \/ SetVolume
  \/ GainSettles

SpecVolume == Init /\ [][NextVolume]_vars

-----------------------------------------------------------------------------
(* Spectrum frames: the publishing branch of animate *)
(* Bins are in dB; energies are fractions in [0, 1].                       *)

\* part_006:93-95  fftSize = 1024, bufferLength = analyser.frequencyBinCount
bufferLength == 512
\* part_006:87  sampleRate: 44100
sampleRate == 44100

NSynth == 1           \* synthetic sample arrays besides the two constant ones

\* What analyser.getFloatFrequencyData may write: a constant array below the
\* -140 dB floor, a constant array at 0 dB, and arrays whose bins differ.
Const(level) == [i \in 0..(bufferLength - 1) |-> level]
Synth(k) == [i \in 0..(bufferLength - 1) |-> 10 - ((i * (6 + k) + 13 * k) % 181)]
ExtremeArrays == {Const(-200), Const(0)}
SampleArrays == ExtremeArrays \cup {Synth(k) : k \in 1..NSynth}

\* Math.floor(freq * this.bufferLength / this.audioContext.sampleRate)
BinIndex(freq) == (freq * bufferLength) \div sampleRate

\* for (let i = startIndex; i < endIndex; i++) sum += this.dataArray[i]
RECURSIVE SumBins(_, _, _)
SumBins(data, i, endIndex) ==
  IF i >= endIndex THEN 0
  ELSE IF i + 1 = endIndex THEN data[i]
  ELSE LET half == (i + endIndex) \div 2
       IN SumBins(data, i, half) + SumBins(data, half, endIndex)

\* the loop with i <= endIndex: the bin at endIndex is added as well
getAverageFrequencyRangeInclusive(data, startFreq, endFreq) ==
  [sum |-> SumBins(data, BinIndex(startFreq), BinIndex(endFreq) + 1),
   count |-> BinIndex(endFreq) - BinIndex(startFreq)]

\* getAverageFrequencyRange(startFreq, endFreq): the quotient sum / count
getAverageFrequencyRange(data, startFreq, endFreq) ==
  [sum |-> SumBins(data, BinIndex(startFreq), BinIndex(endFreq)),
   count |-> BinIndex(endFreq) - BinIndex(startFreq)]

\* (value + 140) / 140 without Math.max and Math.min
normalizeValueUnclamped(value) ==
  Frac(value.sum + 140 * value.count, 140 * value.count)

\* normalizeValue(value) = Math.max(0, Math.min(1, (value + 140) / 140)),
\* of a quotient sum / count
normalizeValue(value) ==
  Frac(Max(0, Min(140 * value.count, value.sum + 140 * value.count)),
       140 * value.count)

\* The frame animate builds: normalizedData.  `raw` is this.dataArray itself.
BuildFrame(data) ==
  [bass |-> normalizeValue(getAverageFrequencyRange(data, 0, 100)),
   mid |-> normalizeValue(getAverageFrequencyRange(data, 100, 2000)),
   treble |-> normalizeValue(getAverageFrequencyRange(data, 2000, 16000)),
   raw |-> "dataArray"]

\* BuildFrame on every sample array, computed once.
FrameOf == [samples \in SampleArrays |-> BuildFrame(samples)]

\* The array a reference points to, as it is now.
Bins(ref) == IF ref = "null" THEN << >> ELSE dataArray

-----------------------------------------------------------------------------
(* Particle field: Agent and AgentSystem *)
(* Lengths are in half velocity units, so that velocity * speedMultiplier  *)
(* is an integer for speedMultiplier 1 and 1.5.                            *)

CanvasWidth == 6      \* window.innerWidth
CanvasHeight == 4     \* window.innerHeight
MaxAgents == 1        \* agents in a batch
MaxExcursion == 3     \* how far outside the canvas an agent is followed

Velocities == {-1, 1}
\* AgentSystem.animate: speedMultiplier = 1 + audioIntensity * 0.5, doubled
\* (a whole number of half units for the intensities 0 and 1)
speedMultiplier2(intensity) == (2 * intensity.den + intensity.num) \div intensity.den

\* update(width, height) of the earlier Agent (src/utils/Agent.js:31-36):
\* this.x += this.vx, whatever the speed multiplier passed
updateUnscaled(a, w, h, sm2) ==
  LET x1 == a.x + a.vx * 2
      y1 == a.y + a.vy * 2
  IN [ x |-> x1, y |-> y1,
       vx |-> IF x1 < 0 \/ x1 > w THEN -a.vx ELSE a.vx,
       vy |-> IF y1 < 0 \/ y1 > h THEN -a.vy ELSE a.vy ]

\* Agent.update(width, height, speedMultiplier)
update(a, w, h, sm2) ==
  LET x1 == a.x + a.vx * sm2
      y1 == a.y + a.vy * sm2
  IN [ x |-> x1, y |-> y1,
       vx |-> IF x1 < 0 \/ x1 > w THEN -a.vx ELSE a.vx,
       vy |-> IF y1 < 0 \/ y1 > h THEN -a.vy ELSE a.vy ]

\* Agent.reset(width, height): Math.random() * width lies in [0, width)
NewAgent(w, h) ==
  [ x : IF w = 0 THEN {0} ELSE 0..(w - 1),
    y : IF h = 0 THEN {0} ELSE 0..(h - 1),
    vx : Velocities, vy : Velocities ]

\* AgentSystem.initAgents(): agentCount fresh agents
initAgents(n, w, h) == [1..n -> NewAgent(w, h)]

Followed(a) ==
  /\ a.x >= -MaxExcursion /\ a.x <= width + MaxExcursion
  /\ a.y >= -MaxExcursion /\ a.y <= height + MaxExcursion

\* AgentSystem.animate: the update pass over the batch
SimulationTick ==
  LET moved == [i \in 1..Len(agents) |->
                  update(agents[i], width, height, speedMultiplier2(audioIntensity))]
  IN /\ isVisible
     /\ \A i \in 1..Len(moved) : Followed(moved[i])
     /\ agents' = moved
     /\ UNCHANGED << dataArray, width, height, agentCount, baseConnectDist,
                     agentIds, allocated, isVisible, fieldObs, reactiveVars >>
     /\ UNCHANGED audioVars

\* visualizerCallback: (bass * 1.5 + mid + treble * 0.8) / 3.3
Intensity(frame) ==
  LET l == Lcm(Lcm(frame.bass.den, frame.mid.den), frame.treble.den)
  IN Frac(15 * frame.bass.num * (l \div frame.bass.den)
            + 10 * frame.mid.num * (l \div frame.mid.den)
            + 8 * frame.treble.num * (l \div frame.treble.den),
          33 * l)

\* baseConnectDist * (1 + 1.5): the boost without the intensity
ConnectDistBoosted(base, intensity) == Frac(5 * base, 2)

\* baseConnectDist * (1 + audioIntensity * 1.5)
ConnectDist(base, intensity) ==
  LET f == Frac(2 * intensity.den + 3 * intensity.num, 2 * intensity.den)
      g == Gcd(base, f.den)
  IN Frac((base \div g) * f.num, f.den \div g)

\* AgentSystem's visualizer callback, called with the frame
visualizerCallback(frame) ==
  LET intensity == Intensity(frame)
  IN /\ frequencyData' = frame.raw
     /\ bassIntensity' = frame.bass
     /\ audioIntensity' = intensity
     /\ audioScale' = Frac(intensity.den + 5 * intensity.num, intensity.den)
     /\ connectDist' = ConnectDist(baseConnectDist, intensity)

\* A publishing tick of the analysis loop delivers to the field: the frames
\* of the constant sample arrays, whose intensity is 0 or 1.
VisualizerCallback ==
  \E samples \in ExtremeArrays :
    /\ dataArray' = samples
    /\ visualizerCallback(FrameOf[samples])
    /\ UNCHANGED << agents, width, height, agentCount, baseConnectDist,
                    agentIds, allocated, isVisible, fieldObs >>
    /\ UNCHANGED audioVars

\* AgentSystem constructor: setupCanvas(), initAgents().  The batch is any
\* batch initAgents can draw; MaxAgents stands for agentCount.
InitAgents ==
  /\ AudioInit
  /\ dataArray = Const(0)
  /\ width = CanvasWidth
  /\ height = CanvasHeight
  /\ agentCount = MaxAgents
  /\ baseConnectDist = 100
  /\ connectDist = Frac(100, 1)
  /\ frequencyData = "null"
  /\ audioIntensity = Zero
  /\ bassIntensity = Zero
  /\ audioScale = One
  /\ agents \in initAgents(MaxAgents, CanvasWidth, CanvasHeight)
  /\ agentIds = [i \in 1..MaxAgents |-> i]
  /\ allocated = MaxAgents
  /\ isVisible = TRUE
  /\ fieldObs = FieldObsInit

NextAgents ==
  \/ SimulationTick
  \/ VisualizerCallback

SpecAgents == InitAgents /\ [][NextAgents]_vars

-----------------------------------------------------------------------------
(* The field and the frames it receives *)

MaxCount == 2         \* largest agent count requested through setAgentCount
PositionGrid == 20    \* relative positions k / PositionGrid are looked up
MaxAllocated == 4     \* agent objects created in one run

\* Requested connection distances (setConnectDistance), the default included.
Distances == {2, 4, 100}

\* The outcomes of Math.random() followed when a batch is replaced: an agent
\* starts in the first or the last column of the top row and moves diagonally.
Draws(w, h) ==
  {a \in NewAgent(w, h) : a.x \in {0, Max(w - 1, 0)} /\ a.y = 0 /\ a.vx = a.vy}

\* initAgents(): Array.from({length: agentCount}, ... new Agent(...)) with
\* the agent objects of the batch that is replaced
BatchIdsResized(old, n, created) ==
  [i \in 1..n |-> IF i <= Len(old) THEN old[i] ELSE created + i]

\* initAgents(): the objects of the new batch are all new
BatchIds(old, n, created) == [i \in 1..n |-> created + i]

\* (value + 140) / 140 clamped to [0, 1], of one bin
NormalizedBin(value) == Frac(Max(0, Min(140, value + 140)), 140)

\* p * q, of fractions
FMul(p, q) ==
  LET g1 == Gcd(Abs(p.num), q.den)
      g2 == Gcd(Abs(q.num), p.den)
  IN Frac((p.num \div g1) * (q.num \div g2), (p.den \div g2) * (q.den \div g1))

\* the index computed from the agent's ordinal, counted from 1
FrequencyIndexFromOne(agentIndex) ==
  ((agentIndex + 1) * bufferLength) \div agentCount

\* Math.floor((agentIndex / this.agentCount) * this.frequencyData.length)
FrequencyIndex(agentIndex) == (agentIndex * bufferLength) \div agentCount

\* getAgentAudioScale(agentIndex)
getAgentAudioScale(agentIndex) ==
  IF frequencyData = "null" THEN One
  ELSE
    LET normalizedValue ==
          NormalizedBin(Bins(frequencyData)[FrequencyIndex(agentIndex)])
        \* 0.5 + normalizedValue * 3.5
        perAgentScale == Frac(normalizedValue.den + 7 * normalizedValue.num,
                              2 * normalizedValue.den)
        \* 1 + this.audioIntensity * 2
        globalScale == Frac(audioIntensity.den + 2 * audioIntensity.num,
                            audioIntensity.den)
    IN FMul(perAgentScale, globalScale)

\* createColorLookupTable(): freqMin and freqMax in hundredths
colorLUT ==
  << [freqMin |-> 0, freqMax |-> 10], [freqMin |-> 10, freqMax |-> 20],
     [freqMin |-> 20, freqMax |-> 35], [freqMin |-> 35, freqMax |-> 50],
     [freqMin |-> 50, freqMax |-> 65], [freqMin |-> 65, freqMax |-> 80],
     [freqMin |-> 80, freqMax |-> 90], [freqMin |-> 90, freqMax |-> 100] >>

\* the scan with freqPosition <= color.freqMax
ScanLUTInclusive(n, d) ==
  LET hits == {k \in 1..Len(colorLUT) :
                 /\ 100 * n >= colorLUT[k].freqMin * d
                 /\ 100 * n <= colorLUT[k].freqMax * d}
  IN IF hits = {} THEN 1
     ELSE CHOOSE k \in hits : \A j \in hits : k <= j

\* getAgentColor, the scan of the table for freqPosition = n / d: the first
\* entry with freqPosition >= freqMin && freqPosition < freqMax, the first
\* entry of the table when there is none
ScanLUT(n, d) ==
  LET hits == {k \in 1..Len(colorLUT) :
                 /\ 100 * n >= colorLUT[k].freqMin * d
                 /\ 100 * n < colorLUT[k].freqMax * d}
  IN IF hits = {} THEN 1
     ELSE CHOOSE k \in hits : \A j \in hits : k <= j

\* getAgentColor: freqPosition = agentIndex / this.agentCount
SelectedColor(agentIndex) == ScanLUT(agentIndex, agentCount)

\* this.defaultColor: the --fg-color of the page
defaultColor == "fg-color"

\* getAgentColor(agentIndex, intensity): the rgba string is determined by the
\* table entry, the bin's normalized level, the intensity and audioIntensity.
getAgentColor(agentIndex, intensity) ==
  IF frequencyData = "null" THEN defaultColor
  ELSE [selectedColor |-> SelectedColor(agentIndex),
        normalizedFreq |->
          NormalizedBin(Bins(frequencyData)[FrequencyIndex(agentIndex)]),
        intensity |-> intensity,
        alpha |-> audioIntensity]

\* getConnectionColor(agentIndex1, agentIndex2)
getConnectionColor(agentIndex1, agentIndex2) ==
  IF frequencyData = "null" THEN defaultColor
  ELSE IF Bins(frequencyData)[FrequencyIndex(agentIndex1)]
            > Bins(frequencyData)[FrequencyIndex(agentIndex2)]
    THEN getAgentColor(agentIndex1, audioIntensity)
    ELSE getAgentColor(agentIndex2, audioIntensity)

FieldDid(name, arg) ==
  [fieldObs EXCEPT !.did = name, !.arg = arg, !.before = agentIds,
                   !.energies = << >>, !.at = << >>, !.edges = << >>]

\* setAgentCount(count)
SetAgentCount ==
  \E count \in 0..MaxCount :
    /\ allocated + count <= MaxAllocated
    /\ agentCount' = count
    /\ agents' \in [1..count -> Draws(width, height)]
    /\ agentIds' = BatchIds(agentIds, count, allocated)
    /\ allocated' = allocated + count
    /\ fieldObs' = FieldDid("setAgentCount", count)
    /\ UNCHANGED << dataArray, width, height, baseConnectDist, isVisible,
                    reactiveVars >>
    /\ UNCHANGED audioVars

\* setConnectDistance(dist)
SetConnectDistance ==
  \E dist \in Distances :
    /\ baseConnectDist' = dist
    /\ connectDist' = ConnectDist(dist, audioIntensity)
    /\ fieldObs' = FieldDid("setConnectDistance", dist)
    /\ UNCHANGED << dataArray, agents, width, height, agentCount, agentIds,
                    allocated, isVisible, frequencyData, audioIntensity,
                    bassIntensity, audioScale >>
    /\ UNCHANGED audioVars

\* A publishing tick of the analysis loop with the field's callback
\* registered: getFloatFrequencyData fills dataArray, the frame is built and
\* the callback is called with it.  `keep` is whether the frame the field
\* receives in this tick is the one the observation remembers.
SampleTick ==
  \E samples \in SampleArrays, keep \in BOOLEAN :
    /\ dataArray' = samples
    /\ visualizerCallback(FrameOf[samples])
    /\ fieldObs' = [FieldDid("frame", 0) EXCEPT
                      !.frames = Min(@ + 1, 2),
                      !.energies = << FrameOf[samples].bass,
                                      FrameOf[samples].mid,
                                      FrameOf[samples].treble >>,
                      !.kept = IF keep
                                 THEN [taken |-> TRUE,
                                       raw |-> FrameOf[samples].raw,
                                       bins |-> samples]
                                 ELSE @]
    /\ UNCHANGED << agents, width, height, agentCount, baseConnectDist,
                    agentIds, allocated, isVisible >>
    /\ UNCHANGED audioVars

\* new AgentSystem(audioManager) on a manager that has a track loaded
InitFrame ==
  /\ AudioLoaded
  /\ dataArray = Const(0)
  /\ width = CanvasWidth
  /\ height = CanvasHeight
  /\ agentCount = MaxCount
  /\ baseConnectDist = 100
  /\ connectDist = Frac(100, 1)
  /\ frequencyData = "null"
  /\ audioIntensity = Zero
  /\ bassIntensity = Zero
  /\ audioScale = One
  /\ agents \in [1..MaxCount -> Draws(CanvasWidth, CanvasHeight)]
  /\ agentIds = [i \in 1..MaxCount |-> i]
  /\ allocated = MaxCount
  /\ isVisible = TRUE
  /\ fieldObs = FieldObsInit

NextFrame ==
  \/ SampleTick
  \/ SetAgentCount
  \/ SetConnectDistance

SpecFrame == InitFrame /\ [][NextFrame]_vars

-----------------------------------------------------------------------------
(* The frame of the field: connection pass and update pass *)

NConnect == 3         \* agents in the batch whose connections are drawn

\* Math.hypot(a.x - b.x, a.y - b.y) < connectDist, positions in half units
Within(a, b, dist) ==
  LET dx == a.x - b.x
      dy == a.y - b.y
  IN (dx * dx + dy * dy) * dist.den * dist.den < 4 * dist.num * dist.num

\* for (let j = 0; ...): the inner loop over every agent
InnerLoopFromStart(i, n) == [k \in 1..n |-> << i, k >>]

\* for (let j = i + 1; j < this.agents.length; j++): the pairs it visits
InnerLoop(i, n) == [k \in 1..(n - i) |-> << i, i + k >>]

\* for (let i = 0; i < this.agents.length; i++): the pairs visited, in order
RECURSIVE OuterLoop(_, _)
OuterLoop(i, n) ==
  IF i > n THEN << >> ELSE InnerLoop(i, n) \o OuterLoop(i + 1, n)

\* The connection pass: one stroke() for each visited pair within connectDist
ConnectionPass(batch, dist) ==
  SelectSeq(OuterLoop(1, Len(batch)),
            LAMBDA p : Within(batch[p[1]], batch[p[2]], dist))

\* AgentSystem.animate: one animation frame.  A hidden field only asks for
\* the next frame; a visible one strokes the connections of the batch as it
\* stands, then moves every agent.
RenderTick ==
  IF ~isVisible
    THEN /\ fieldObs' = [FieldDid("hidden", connectDist) EXCEPT
                           !.at = agents, !.edges = << >>]
         /\ UNCHANGED << dataArray, agents, width, height, agentCount,
                         baseConnectDist, agentIds, allocated, isVisible,
                         reactiveVars >>
         /\ UNCHANGED audioVars
    ELSE LET moved == [i \in 1..Len(agents) |->
                         update(agents[i], width, height,
                                speedMultiplier2(audioIntensity))]
         IN /\ \A i \in 1..Len(moved) : Followed(moved[i])
            /\ fieldObs' = [FieldDid("render", connectDist) EXCEPT
                              !.at = agents,
                              !.edges = ConnectionPass(agents, connectDist)]
            /\ agents' = moved
            /\ UNCHANGED << dataArray, width, height, agentCount,
                            baseConnectDist, agentIds, allocated, isVisible,
                            reactiveVars >>
            /\ UNCHANGED audioVars

\* Component.setVisibility(visible); onVisibilityChange sets the canvas's
\* display style, which is not part of the state
SetVisibility ==
  \E visible \in BOOLEAN :
    /\ isVisible' = visible
    /\ fieldObs' = FieldDid("setVisibility", 0)
    /\ UNCHANGED << dataArray, agents, width, height, agentCount,
                    baseConnectDist, agentIds, allocated, reactiveVars >>
    /\ UNCHANGED audioVars

\* The outcomes of Math.random() followed in the rendered batch: an agent
\* starts in a top corner and moves diagonally away from the side it is on.
ConnectDraws(w, h) ==
  {a \in Draws(w, h) : a.vx = IF a.x = 0 THEN 1 ELSE -1}

\* new AgentSystem(audioManager) with a batch of NConnect agents; the field
\* has received no frame yet, or one frame of a silent or a full-scale
\* spectrum (the music then stays as it is while the frames are rendered).
InitConnect ==
  /\ AudioLoaded
  /\ width = CanvasWidth
  /\ height = CanvasHeight
  /\ agentCount = NConnect
  /\ baseConnectDist = 100
  /\ \E samples \in ExtremeArrays, received \in BOOLEAN :
       /\ dataArray = samples
       /\ frequencyData = IF received THEN FrameOf[samples].raw ELSE "null"
       /\ bassIntensity = IF received THEN FrameOf[samples].bass ELSE Zero
       /\ audioIntensity =
            IF received THEN Intensity(FrameOf[samples]) ELSE Zero
  /\ audioScale = Frac(audioIntensity.den + 5 * audioIntensity.num,
                       audioIntensity.den)
  /\ connectDist = ConnectDist(baseConnectDist, audioIntensity)
  /\ agents \in [1..NConnect -> ConnectDraws(CanvasWidth, CanvasHeight)]
  /\ agentIds = [i \in 1..NConnect |-> i]
  /\ allocated = NConnect
  /\ isVisible = TRUE
  /\ fieldObs = FieldObsInit

NextConnect ==
  \/ RenderTick
  \/ SetConnectDistance
  \/ SetVisibility

SpecConnect == InitConnect /\ [][NextConnect]_vars

-----------------------------------------------------------------------------
(* Properties *)

RunningSource == source # 0 /\ nodes[source].status = "playing"

\* C1: seek(t) while playing restarts playback: afterwards the session is
\* still playing, the current source runs from offset clamp(t, 0, duration)
\* and the analysis loop is active.
C1_SeekWhilePlayingRestarts ==
  (last.op = "seek" /\ last.pre.isPlaying) =>
     /\ isPlaying
     /\ RunningSource
     /\ nodes[source].offset = Max(0, Min(last.arg, last.pre.duration))
     /\ isProcessing

\* C2: when a subscriber callback throws during a publish, every registered
\* callback has still received the frame and the loop has scheduled its next
\* tick.
C2_ThrowingSubscriberIsolated ==
  (obs.tick.published /\ obs.tick.threw) =>
     /\ obs.tick.delivered = obs.tick.registered
     /\ obs.tick.scheduled

\* C3: the ended handler runs at most once between one start of playback and
\* the next: once it has run, it does not run again before the next play().
C3_CompletionOncePerCycle == obs.endedSincePlay <= 1

\* C4: every agent stays within [0, width] x [0, height] after every tick.
C4_BounceInvariant ==
  \A i \in 1..Len(agents) :
    /\ 0 <= agents[i].x /\ agents[i].x <= width
    /\ 0 <= agents[i].y /\ agents[i].y <= height

\* C5: pause() while playing adds the time elapsed since the last play() to
\* the position, stops the source, clears isPlaying and stops the analysis
\* loop; pause() while not playing changes nothing.
C5_Pause ==
  (last.op = "pause") =>
     IF last.pre.isPlaying
       THEN /\ currentTime =
                 last.pre.currentTime + (last.pre.ctxTime - last.pre.startTime)
            /\ nodes[last.pre.source].status # "playing"
            /\ ~isPlaying
            /\ ~isProcessing
       ELSE /\ currentTime = last.pre.currentTime
            /\ isPlaying = last.pre.isPlaying
            /\ pendingPlayback = last.pre.pendingPlayback
            /\ isProcessing = last.pre.isProcessing

\* C6: play() while already playing, or with no buffer loaded, changes
\* nothing: isPlaying, position, pendingPlayback, the current source and the
\* analysis loop are as before and no source was created.
C6_PlayNoOp ==
  (last.op = "play" /\ (last.pre.isPlaying \/ last.pre.audioBuffer = 0)) =>
     /\ isPlaying = last.pre.isPlaying
     /\ currentTime = last.pre.currentTime
     /\ pendingPlayback = last.pre.pendingPlayback
     /\ source = last.pre.source
     /\ Len(nodes) = last.pre.nNodes
     /\ isProcessing = last.pre.isProcessing
     /\ rafPending = last.pre.rafPending

\* play() was called while a source was already running
C6_Witness ==
  /\ last.op = "play"
  /\ last.pre.isPlaying
  /\ last.pre.audioBuffer # 0
  /\ RunningSource

\* C7: play() with a buffer, not playing, on a suspended context only sets
\* pendingPlayback: the session is not playing, no source was created, the
\* position is unchanged and the analysis loop is not running.
C7_PlayDefersWhenSuspended ==
  (/\ last.op = "play"
   /\ last.pre.audioBuffer # 0
   /\ ~last.pre.isPlaying
   /\ last.pre.audioContext = "suspended") =>
     /\ pendingPlayback
     /\ ~isPlaying
     /\ source = last.pre.source
     /\ Len(nodes) = last.pre.nNodes
     /\ currentTime = last.pre.currentTime
     /\ ~isProcessing
     /\ rafPending = {}

\* play() was called with a buffer on a suspended context, nothing pending
C7_Witness ==
  /\ last.op = "play"
  /\ last.pre.audioBuffer # 0
  /\ ~last.pre.isPlaying
  /\ ~last.pre.pendingPlayback
  /\ last.pre.audioContext = "suspended"
  /\ pendingPlayback

\* C8: once a click has been handled after a deferred play() (with a buffer
\* loaded), the deferred start has been flushed: pendingPlayback is false.
C8_DeferredStartResolved ==
  (obs.clickedSinceDefer /\ hookPc = "idle" /\ audioBuffer # 0) =>
     ~pendingPlayback

C10_PublishRateLimited ==
  obs.tick.published => obs.tick.gap >= minFrameInterval

\* C11: on every publishing tick each callback registered at that moment is
\* invoked exactly once, inside the tick, and the loop then schedules its
\* next tick.
C11_TickDeliversToAllOnce ==
  obs.tick.published =>
     /\ \A c \in obs.tick.registered :
          Cardinality({i \in 1..Len(obs.tick.calls) : obs.tick.calls[i] = c}) = 1
     /\ Len(obs.tick.calls) = Cardinality(obs.tick.registered)
     /\ obs.tick.scheduled

\* C12: registration is by identity and idempotent: a callback is registered
\* at most once, subscribing adds exactly that identity (nothing when it is
\* already there), unsubscribing removes exactly that identity (nothing when
\* it is not there), and a publishing tick invokes registered callbacks only,
\* each at most once.
C12_RegistrationIdempotent ==
  /\ Cardinality(SeqSet(visualizerCallbacks)) = Len(visualizerCallbacks)
  /\ last.op = "addVisualizer" =>
       /\ SeqSet(visualizerCallbacks) = SeqSet(last.pre.cbs) \cup {last.arg}
       /\ last.arg \in SeqSet(last.pre.cbs) => visualizerCallbacks = last.pre.cbs
  /\ last.op = "removeVisualizer" =>
       /\ SeqSet(visualizerCallbacks) = SeqSet(last.pre.cbs) \ {last.arg}
       /\ last.arg \notin SeqSet(last.pre.cbs) => visualizerCallbacks = last.pre.cbs
  /\ obs.tick.published =>
       /\ obs.tick.delivered \subseteq obs.tick.registered
       /\ Cardinality(obs.tick.delivered) = Len(obs.tick.calls)

\* a callback that was already registered was subscribed again, after a tick
\* had published to every subscriber
C12_Witness ==
  /\ last.op = "addVisualizer"
  /\ last.arg \in SeqSet(last.pre.cbs)
  /\ Len(last.pre.cbs) = NSubs
  /\ obs.tick.published
  /\ obs.tick.registered = Subs

C14_SeekClamps ==
  (last.op = "seek" /\ last.pre.audioBuffer # 0) =>
     currentTime = Min(Max(last.arg, 0), last.pre.duration)

\* a seek past the end of the track, issued while playing some way into it
C14_Witness ==
  /\ last.op = "seek"
  /\ last.pre.audioBuffer # 0
  /\ last.pre.isPlaying
  /\ last.pre.ctxTime > last.pre.startTime
  /\ last.arg > last.pre.duration
  /\ currentTime = duration

\* C15: setVolume(v) on an existing gain stage sets the gain's target to
\* min(max(v, 0), 1) and leaves the gain's current value where it was (the
\* value then moves to the target); the effective volume stays in [0, 1].
C15_VolumeClampedAndSmoothed ==
  /\ (last.op = "setVolume" /\ last.pre.gainNode.made) =>
       /\ gainNode.target = Min(Max(last.arg, 0), VolumeSteps)
       /\ gainNode.value = last.pre.gainNode.value
  /\ 0 <= getVolume(W) /\ getVolume(W) <= VolumeSteps

\* setVolume(2.0) after a lower volume had been reached: the target is 1.0,
\* the effective volume still the lower one
C15_Witness ==
  /\ last.op = "setVolume"
  /\ last.arg > VolumeSteps
  /\ last.pre.gainNode.made
  /\ gainNode.target = VolumeSteps
  /\ gainNode.value < VolumeSteps

\* C16: the bins of a frame that the field received and kept are the bins it
\* received, whatever ticks came after.
C16_KeptFrameIsStable ==
  fieldObs.kept.taken => Bins(fieldObs.kept.raw) = fieldObs.kept.bins

\* C17: as long as no frame has been received, every agent's audio scale is
\* 1.0, agent and connection colors are the default color, the speed
\* multiplier is 1 and the connection distance is the base distance.
C17_NeutralDefault ==
  fieldObs.frames = 0 =>
     /\ \A i \in 0..(agentCount - 1) :
          /\ getAgentAudioScale(i) = One
          /\ getAgentColor(i, audioIntensity) = defaultColor
          /\ \A j \in 0..(agentCount - 1) :
               getConnectionColor(i, j) = defaultColor
     /\ speedMultiplier2(audioIntensity) = 2
     /\ connectDist = Frac(baseConnectDist, 1)

\* no frame yet, after the agent count and the connection distance were set
C17_Witness ==
  /\ fieldObs.frames = 0
  /\ fieldObs.did = "setConnectDistance"
  /\ agentCount > 0
  /\ agentIds[1] > MaxCount
  /\ baseConnectDist # 100

\* C18: setAgentCount(n) discards the whole batch and builds exactly n new
\* agents: the agent array has the length last requested, every agent object
\* in it was created by the latest initAgents and none belongs to an earlier
\* batch, and the length changes only in a setAgentCount step.
C18_ResizeBuildsFreshBatch ==
  /\ [](/\ Len(agents) = agentCount
        /\ Len(agentIds) = agentCount
        /\ SeqSet(agentIds) = (allocated - agentCount + 1)..allocated
        /\ (fieldObs.did = "setAgentCount" =>
              /\ Len(agents) = fieldObs.arg
              /\ SeqSet(agentIds) \cap SeqSet(fieldObs.before) = {}))
  /\ [][Len(agents') # Len(agents) => fieldObs'.did = "setAgentCount"]_vars

\* a resize to a smaller, non-empty batch has just run
C18_Witness ==
  /\ fieldObs.did = "setAgentCount"
  /\ fieldObs.arg > 0
  /\ fieldObs.arg < Len(fieldObs.before)
  /\ Len(agents) = fieldObs.arg

\* C19: in one rendered frame, for every unordered pair of distinct agents
\* an edge is stroked exactly once if their distance is below the connection
\* distance and not at all otherwise; no agent is connected to itself.
C19_ConnectivitySymmetry ==
  fieldObs.did = "render" =>
    LET batch == fieldObs.at
        dist == fieldObs.arg
        Strokes(i, j) ==
          Cardinality({k \in DOMAIN fieldObs.edges :
                         fieldObs.edges[k] \in {<< i, j >>, << j, i >>}})
        Near(i, j) ==
          ((batch[i].x - batch[j].x) * (batch[i].x - batch[j].x)
             + (batch[i].y - batch[j].y) * (batch[i].y - batch[j].y))
            * dist.den * dist.den < 4 * dist.num * dist.num
    IN /\ \A k \in DOMAIN fieldObs.edges :
            /\ fieldObs.edges[k][1] \in DOMAIN batch
            /\ fieldObs.edges[k][2] \in DOMAIN batch
       /\ \A i \in DOMAIN batch : \A j \in DOMAIN batch :
            Strokes(i, j) = IF i # j /\ Near(i, j) THEN 1 ELSE 0

\* a rendered frame in which one pair is connected and another is not
C19_Witness ==
  /\ fieldObs.did = "render"
  /\ Len(fieldObs.at) >= 3
  /\ Len(fieldObs.edges) >= 1
  /\ Len(fieldObs.edges) < (Len(fieldObs.at) * (Len(fieldObs.at) - 1)) \div 2

\* C20: the band average over [startFreq, endFreq) is the arithmetic mean of
\* exactly the bins with index in [floor(startFreq*L/sr), floor(endFreq*L/sr)),
\* the published bass, mid and treble energies are the normalization
\* max(0, min(1, (mean + 140) / 140)) of the averages for 0-100 Hz,
\* 100-2000 Hz and 2000-16000 Hz, and the three index ranges are non-empty
\* and do not overlap.
C20_BandAveraging ==
  fieldObs.did = "frame" =>
    LET Floor(freq) == (freq * bufferLength) \div sampleRate
        Range(startFreq, endFreq) ==
          {i \in DOMAIN dataArray : i >= Floor(startFreq) /\ i < Floor(endFreq)}
        RECURSIVE Total(_)
        Total(S) ==
          IF S = {} THEN 0
          ELSE LET lo == CHOOSE i \in S : \A j \in S : i <= j
                   hi == CHOOSE i \in S : \A j \in S : i >= j
                   mid == (lo + hi) \div 2
               IN IF lo = hi THEN dataArray[lo]
                  ELSE Total({i \in S : i <= mid}) + Total({i \in S : i > mid})
        \* max(0, min(1, (total / n + 140) / 140)) as a fraction
        Energy(S) ==
          LET n == Cardinality(S)
              shifted == Total(S) + 140 * n
          IN IF shifted <= 0 THEN Zero
             ELSE IF shifted >= 140 * n THEN One
             ELSE Frac(shifted, 140 * n)
        bass == Range(0, 100)
        middle == Range(100, 2000)
        treble == Range(2000, 16000)
    IN /\ bass # {} /\ middle # {} /\ treble # {}
       /\ bass \cap middle = {} /\ middle \cap treble = {}
       /\ bass \cap treble = {}
       /\ fieldObs.energies = << Energy(bass), Energy(middle), Energy(treble) >>
       /\ bassIntensity = Energy(bass)

\* a frame of a spectrum that is not flat, with three different energies
C20_Witness ==
  /\ fieldObs.did = "frame"
  /\ \E i, j \in DOMAIN dataArray : dataArray[i] # dataArray[j]
  /\ fieldObs.energies[1] # fieldObs.energies[2]
  /\ fieldObs.energies[2] # fieldObs.energies[3]
  /\ FLess(Zero, fieldObs.energies[1]) /\ FLess(fieldObs.energies[1], One)

\* C21: normalizeValue(raw) is (raw + 140) / 140 clamped to [0, 1]: it lies in
\* [0, 1] for every raw level, normalizeValue(-140) = 0 and
\* normalizeValue(0) = 1; hence the bass, mid and treble values of every
\* published frame lie in [0, 1].
C21_NormalizationBound ==
  fieldObs.did = "frame" =>
    LET Level(raw) == [sum |-> raw, count |-> 1]
        InUnit(e) == ~FLess(e, Zero) /\ ~FLess(One, e)
    IN /\ normalizeValue(Level(-140)) = Zero
       /\ normalizeValue(Level(0)) = One
       /\ \A i \in DOMAIN dataArray :
            LET raw == dataArray[i]
                e == normalizeValue(Level(raw))
            IN /\ InUnit(e)
               /\ raw <= -140 => e = Zero
               /\ raw >= 0 => e = One
               /\ (raw > -140 /\ raw < 0) =>
                    e.num * 140 = (raw + 140) * e.den
       /\ \A k \in DOMAIN fieldObs.energies : InUnit(fieldObs.energies[k])

\* a frame of a spectrum with bins below -140 dB and bins above 0 dB, and
\* an energy strictly inside (0, 1)
C21_Witness ==
  /\ fieldObs.did = "frame"
  /\ \E i \in DOMAIN dataArray : dataArray[i] < -140
  /\ \E i \in DOMAIN dataArray : dataArray[i] > 0
  /\ \E k \in DOMAIN fieldObs.energies :
       FLess(Zero, fieldObs.energies[k]) /\ FLess(fieldObs.energies[k], One)

\* C22: the color table is 8 contiguous, non-overlapping bands that partition
\* [0, 1]: every relative position in [0, 1) lies in exactly one band and the
\* scan returns that band; a position no band holds (1) gets the first entry.
C22_ColorBandsPartition ==
  LET Holds(k, n, d) == /\ 100 * n >= colorLUT[k].freqMin * d
                        /\ 100 * n < colorLUT[k].freqMax * d
      BandsOf(n, d) == {k \in DOMAIN colorLUT : Holds(k, n, d)}
  IN /\ Len(colorLUT) = 8
     /\ colorLUT[1].freqMin = 0
     /\ colorLUT[Len(colorLUT)].freqMax = 100
     /\ \A k \in DOMAIN colorLUT : colorLUT[k].freqMin < colorLUT[k].freqMax
     /\ \A k \in 1..(Len(colorLUT) - 1) :
          colorLUT[k].freqMax = colorLUT[k + 1].freqMin
     /\ \A n \in 0..(PositionGrid - 1) :
          /\ Cardinality(BandsOf(n, PositionGrid)) = 1
          /\ ScanLUT(n, PositionGrid) \in BandsOf(n, PositionGrid)
     /\ BandsOf(PositionGrid, PositionGrid) = {}
     /\ ScanLUT(PositionGrid, PositionGrid) = 1
     /\ frequencyData # "null" =>
          \A i \in 0..(agentCount - 1) :
            BandsOf(i, agentCount)
              = {getAgentColor(i, audioIntensity).selectedColor}

\* the field has frames and the second of two agents gets a band that is not
\* the first entry
C22_Witness ==
  /\ frequencyData # "null"
  /\ agentCount >= 2
  /\ getAgentColor(1, audioIntensity).selectedColor > 1

\* C23: one integrate step moves each agent by velocity times speedMultiplier
\* with speedMultiplier = 1 + audioIntensity * 0.5; a velocity component is
\* multiplied by -1 exactly when the new coordinate is outside [0, width]
\* (resp. [0, height]); the position itself is not wrapped around.
\* (Lengths are in half units: the step is v * 2 * speedMultiplier.)
C23_IntegrateStep ==
  [][agents' # agents =>
       /\ Len(agents') = Len(agents)
       /\ (2 * audioIntensity.den + audioIntensity.num) % audioIntensity.den = 0
       /\ \A i \in 1..Len(agents) :
            LET twice == (2 * audioIntensity.den + audioIntensity.num)
                           \div audioIntensity.den
                a == agents[i]
                b == agents'[i]
            IN /\ b.x = a.x + a.vx * twice
               /\ b.y = a.y + a.vy * twice
               /\ b.vx = IF b.x < 0 \/ b.x > width THEN -a.vx ELSE a.vx
               /\ b.vy = IF b.y < 0 \/ b.y > height THEN -a.vy ELSE a.vy]_vars

\* at full intensity an agent has overshot the right edge: it is outside the
\* canvas, not wrapped, and its velocity has been turned
C23_Witness ==
  /\ audioIntensity = One
  /\ \E i \in 1..Len(agents) : agents[i].x > width /\ agents[i].vx < 0

\* C24: once frames are received, the frequency bin index
\* floor((index / agentCount) * binCount) of every agent drawn is a valid bin
\* index, 0 <= bin < binCount, whatever setAgentCount calls and frames came
\* before.
C24_BinIndexValid ==
  frequencyData # "null" =>
    LET binCount == Cardinality(DOMAIN Bins(frequencyData))
    IN /\ Len(agents) > 0 => agentCount > 0
       /\ \A i \in 0..(Len(agents) - 1) :
            /\ FrequencyIndex(i) >= 0
            /\ FrequencyIndex(i) < binCount
            /\ FrequencyIndex(i) \in DOMAIN Bins(frequencyData)
            /\ getAgentAudioScale(i) \in [num : Nat, den : Nat]

\* the batch was replaced after frames were received, and its last agent
\* reads a bin that is not the first
C24_Witness ==
  /\ frequencyData # "null"
  /\ fieldObs.did = "setAgentCount"
  /\ Len(agents) >= 2
  /\ FrequencyIndex(Len(agents) - 1) > 0

\* C25: the position stored by pause() is not changed by the ended callback
\* of the stopped source: an ended callback that runs while the session is
\* not playing leaves the position as it found it, so the next play() starts
\* at the paused offset.
C25_PausedPositionKept ==
  (last.op = "ended" /\ ~last.pre.isPlaying) =>
     currentTime = last.pre.currentTime

\* C26: the ended callback of a source that was stopped earlier never alters
\* a later play cycle: whenever the source created by the most recent play()
\* is still running, isPlaying is true and the analysis loop is active.
C26_StaleEndedLeavesCycleAlone ==
  (source # 0 /\ nodes[source].status = "playing") =>
     (isPlaying /\ isProcessing)

\* C27: after Headline.destroy() the callback the Headline constructor
\* registered is no longer in the subscriber set, and no frame published
\* after destroy() is delivered to it.
C27_DestroyUnsubscribes ==
  headline.destroyed =>
    /\ headline.callback \notin SeqSet(visualizerCallbacks)
    /\ (last.op = "animate" /\ obs.tick.published) =>
          headline.callback \notin obs.tick.delivered

\* C28: an agent that is outside the bounds after a step has been turned
\* back: its velocity component on that axis points toward the bounds.
C28_OutsideAgentTurnedBack ==
  \A i \in 1..Len(agents) :
    /\ agents[i].x > width => agents[i].vx < 0
    /\ agents[i].x < 0 => agents[i].vx > 0
    /\ agents[i].y > height => agents[i].vy < 0
    /\ agents[i].y < 0 => agents[i].vy > 0

\* C29: the analysis loop runs exactly while the session is playing: after
\* each of play(), pause(), seek(), loadAudio() and the ended callback has
\* returned, isProcessing equals isPlaying; a tick gets past the isProcessing
\* guard, and so can publish, only in a session that is playing.
C29_LoopRunsWhilePlaying ==
  /\ last.op \in {"play", "pause", "seek", "loadAudio", "loadAudioStop",
                  "loadAudioEnd", "playMusicFile", "ended"} =>
       isProcessing = isPlaying
  /\ (last.op = "animate" /\ obs.tick.active) =>
       (last.pre.isPlaying /\ last.pre.isProcessing)

\* a pause() has stopped the loop of a playing session
C29_Witness ==
  /\ last.op = "pause"
  /\ last.pre.isPlaying /\ last.pre.isProcessing
  /\ ~isPlaying /\ ~isProcessing

\* C30: at most one analysis loop exists at any time: in every reachable
\* state at most one scheduled tick callback is pending.
C30_AtMostOneLoop == Cardinality(rafPending) <= 1

====
